---- MODULE Spec2Model ----
(***************************************************************************)
(* The Conversation Memory Store of rag_chatbot                            *)
(* (src/app/services/memory_manager.py, class ConversationMemory): the     *)
(* in-memory map of conversation id -> interaction log, its file-per-      *)
(* conversation durable copy, and the handlers that mutate both.           *)
(***************************************************************************)
EXTENDS Integers, Sequences, FiniteSets, TLC

(***************************************************************************)
(* Bounds of the model.                                                    *)
(***************************************************************************)
\* max_history as configured for the checked store (constructor parameter).
max_history == 2
\* Number of conversation ids uuid4() hands out in a run.
MaxConvs == 2
\* Number of readings of the clock in a run.
MaxClock == 4
\* Number of durable-storage faults injected in a run of SpecFaults.
MaxFailures == 1
\* Largest retry_count the model lets an interaction reach.
MaxRetryCount == 1
\* Callers pass message indices from -NegIdx up to MaxLen.
NegIdx == 1
\* A log may outgrow max_history (retry_message appends without evicting);
\* the model stops growing it at MaxLen.
MaxLen == max_history + 2
\* Number of appends the history variable `appended` follows per conversation.
MaxTrack == max_history + 2

\* Questions asked, contents of edits, contents of retries.
Texts == {"a", "b"}
EditTexts == {"x"}
RetryTexts == {"m"}

VARIABLES
    conversations,  \* self.conversations: id -> list of interactions
    disk,           \* storage_dir: id -> content of conversation_<id>.json
    nextId,         \* the next id uuid4() returns (ids are never repeated)
    now,            \* the last reading of datetime.now(), as a logical clock
    faultsLeft,     \* durable-storage faults the environment may still inject
    appended,       \* history: id -> what add_interaction appended since creation
    last            \* the most recent call: handler, outcome, and what it wrote

vars == <<conversations, disk, nextId, now, faultsLeft, appended, last>>

(***************************************************************************)
(* Python values.                                                          *)
(***************************************************************************)
\* An optional dict key: absent, or present with a value.
None == <<>>
Some(v) == <<v>>

Min(a, b) == IF a < b THEN a ELSE b
Max(a, b) == IF a > b THEN a ELSE b

\* list[:stop]
PySliceTo(s, stop) ==
    LET n == Len(s)
        e == IF stop < 0 THEN Max(n + stop, 0) ELSE Min(stop, n)
    IN SubSeq(s, 1, e)

\* Whether list[i] is an element (a negative i counts from the end).
PyIndexOk(s, i) == -Len(s) <= i /\ i < Len(s)

\* The 1-based position list[i] denotes, for an index that PyIndexOk accepts.
PyPos(s, i) == IF i < 0 THEN Len(s) + i + 1 ELSE i + 1

EmptyMap == [x \in {} |-> <<>>]
\* An assignment that reaches every key of the dict.
Put_every_key(f, k, v) == [x \in (DOMAIN f) \cup {k} |-> v]
\* self.conversations[k] = v, and the write of conversation_<k>.json.
Put(f, k, v) == [x \in (DOMAIN f) \cup {k} |-> IF x = k THEN v ELSE f[x]]
Drop(f, k) == [x \in (DOMAIN f) \ {k} |-> f[x]]

(***************************************************************************)
(* Message identifiers: the text split at its underscores.  A segment is   *)
(* the text of a conversation id (a UUID: hyphens, no underscore), a       *)
(* decimal integer, or some other word.                                    *)
(***************************************************************************)
UuidSeg(c) == [kind |-> "uuid", val |-> c]
IntSeg(i) == [kind |-> "int", val |-> i]
WordSeg == [kind |-> "word", val |-> 0]

\* f"{conversation_id}_{i}"
MessageId(c, i) == <<UuidSeg(c), IntSeg(i)>>

\* int(message_id.split('_')[1]): the index, or the exception it raises.
parse_index(message_id) ==
    IF Len(message_id) < 2 THEN [ok |-> FALSE, err |-> "index_error", idx |-> 0]
    ELSE IF message_id[2].kind # "int"
         THEN [ok |-> FALSE, err |-> "value_error", idx |-> 0]
         ELSE [ok |-> TRUE, err |-> "", idx |-> message_id[2].val]

(***************************************************************************)
(* Interactions.                                                           *)
(***************************************************************************)
\* add_interaction's dict.
NewInteraction(t, question, response, context_used) ==
    [timestamp |-> t, question |-> question, response |-> response,
     context_used |-> Some(context_used), edited_at |-> None,
     is_retry |-> None, previous_version |-> None, retry_count |-> None]

\* retry_message's and retry_response's new_interaction.
RetryInteraction(t, question, message_id) ==
    [timestamp |-> t, question |-> question, response |-> [response |-> ""],
     context_used |-> None, edited_at |-> None,
     is_retry |-> Some(TRUE), previous_version |-> Some(message_id),
     retry_count |-> None]

\* [inter["question"] for inter in log]
Questions(log) == [k \in 1..Len(log) |-> log[k].question]

(***************************************************************************)
(* The handlers' work on one log.  Each returns the log the handler leaves *)
(* in self.conversations, or raised = TRUE when a list index raises        *)
(* IndexError before anything is assigned.                                 *)
(***************************************************************************)
Raised == [raised |-> TRUE, log |-> <<>>]
Done(log) == [raised |-> FALSE, log |-> log]

\* add_interaction: append, then drop the oldest once when over max_history.
\* An append that evicts nothing.
add_interaction_log_uncapped(log, interaction) == Append(log, interaction)

add_interaction_log(log, interaction) ==
    LET l == Append(log, interaction)
    IN IF Len(l) > max_history THEN Tail(l) ELSE l

\* An edit that rewrites the question and keeps the interactions after it.
edit_message_log_keeps_tail(conversation, msg_index, new_content, preserve_history, t) ==
    IF ~PyIndexOk(conversation, msg_index) THEN Raised
    ELSE LET p == PyPos(conversation, msg_index)
         IN Done([conversation EXCEPT ![p].question = new_content,
                                      ![p].edited_at = Some(t)])

\* edit_message, from `if preserve_history:` to the assignment of the log.
edit_message_log(conversation, msg_index, new_content, preserve_history, t) ==
    IF preserve_history
    THEN LET new_conversation == PySliceTo(conversation, msg_index + 1)
         IN IF ~PyIndexOk(new_conversation, msg_index) THEN Raised
            ELSE LET p == PyPos(new_conversation, msg_index)
                 IN Done([new_conversation EXCEPT
                            ![p].question = new_content,
                            ![p].edited_at = Some(t)])
    ELSE IF ~PyIndexOk(conversation, msg_index) THEN Raised
         ELSE LET p == PyPos(conversation, msg_index)
                  edited == [conversation EXCEPT
                                ![p].question = new_content,
                                ![p].edited_at = Some(t)]
              IN Done(PySliceTo(edited, msg_index + 1))

\* Python truthiness of an Optional[str]: None and "" are false.
Truthy(opt) == opt # None /\ opt[1] # ""

\* A retry that always asks the question of the interaction again, whatever
\* modified_content is.
retry_message_log_same_question(conversation, msg_index, message_id, modified_content, preserve_history, t) ==
    IF ~PyIndexOk(conversation, msg_index) THEN Raised
    ELSE LET p == PyPos(conversation, msg_index)
             retry_content == conversation[p].question
         IN IF preserve_history
            THEN Done(Append(PySliceTo(conversation, msg_index + 1),
                             RetryInteraction(t, retry_content, message_id)))
            ELSE Done(PySliceTo([conversation EXCEPT ![p].question = retry_content,
                                                     ![p].timestamp = t,
                                                     ![p].is_retry = Some(TRUE)],
                                msg_index + 1))

\* A retry in place that replaces the interaction by a fresh placeholder, so
\* that its response and context_used are lost.
retry_message_log_fresh(conversation, msg_index, message_id, modified_content, preserve_history, t) ==
    IF ~PyIndexOk(conversation, msg_index) THEN Raised
    ELSE LET p == PyPos(conversation, msg_index)
             retry_content == IF Truthy(modified_content) THEN modified_content[1]
                              ELSE conversation[p].question
         IN IF preserve_history
            THEN Done(Append(PySliceTo(conversation, msg_index + 1),
                             RetryInteraction(t, retry_content, message_id)))
            ELSE Done(PySliceTo([conversation EXCEPT
                                    ![p] = RetryInteraction(t, retry_content, message_id)],
                                msg_index + 1))

\* A retry in place that keeps the interactions after the retried one.
retry_message_log_keeps_tail(conversation, msg_index, message_id, modified_content, preserve_history, t) ==
    IF ~PyIndexOk(conversation, msg_index) THEN Raised
    ELSE LET p == PyPos(conversation, msg_index)
             retry_content == IF Truthy(modified_content) THEN modified_content[1]
                              ELSE conversation[p].question
         IN IF preserve_history
            THEN Done(Append(PySliceTo(conversation, msg_index + 1),
                             RetryInteraction(t, retry_content, message_id)))
            ELSE Done([conversation EXCEPT ![p].question = retry_content,
                                           ![p].timestamp = t,
                                           ![p].is_retry = Some(TRUE)])

\* retry_message, from the computation of retry_content on.
retry_message_log(conversation, msg_index, message_id, modified_content, preserve_history, t) ==
    IF ~Truthy(modified_content) /\ ~PyIndexOk(conversation, msg_index)
    THEN Raised
    ELSE LET retry_content ==
                 IF Truthy(modified_content) THEN modified_content[1]
                 ELSE conversation[PyPos(conversation, msg_index)].question
         IN IF preserve_history
            THEN Done(Append(PySliceTo(conversation, msg_index + 1),
                             RetryInteraction(t, retry_content, message_id)))
            ELSE IF ~PyIndexOk(conversation, msg_index) THEN Raised
                 ELSE LET p == PyPos(conversation, msg_index)
                          retried == [conversation EXCEPT
                                         ![p].question = retry_content,
                                         ![p].timestamp = t,
                                         ![p].is_retry = Some(TRUE)]
                      IN Done(PySliceTo(retried, msg_index + 1))

\* A question index that is the message index itself.
question_index_same(msg_index) == msg_index

\* question_index = msg_index - 1 if msg_index % 2 == 1 else msg_index
question_index(msg_index) ==
    IF msg_index % 2 = 1 THEN msg_index - 1 ELSE msg_index

\* dict.get("retry_count", 0)
RetryCount(interaction) ==
    IF interaction.retry_count = None THEN 0 ELSE interaction.retry_count[1]

\* retry_response, after the question index was accepted.
retry_response_log(conversation, msg_index, message_id, preserve_history, t) ==
    LET original_question ==
            conversation[PyPos(conversation, question_index(msg_index))].question
    IN IF preserve_history
       THEN Done(Append(PySliceTo(conversation, msg_index + 1),
                        RetryInteraction(t, original_question, message_id)))
       ELSE IF ~PyIndexOk(conversation, msg_index) THEN Raised
            ELSE LET p == PyPos(conversation, msg_index)
                     retried == [conversation EXCEPT
                                    ![p].retry_count =
                                        Some(RetryCount(conversation[p]) + 1),
                                    ![p].timestamp = t]
                 IN Done(PySliceTo(retried, msg_index + 1))

(***************************************************************************)
(* Durable storage: one JSON file per conversation.                        *)
(***************************************************************************)
\* A file json.dump completed: it holds the log.
Stored(log) == [valid |-> TRUE, log |-> log]
\* A file opened for writing (truncated) whose json.dump did not complete.
Corrupt == [valid |-> FALSE, log |-> <<>>]

\* What a write can do: complete, fail in open() (the file is untouched), or
\* fail in json.dump after open(file_path, "w") truncated the file.
SaveOutcomes ==
    {"ok"} \cup (IF faultsLeft > 0 THEN {"open_fails", "write_fails"} ELSE {})

\* A save whose completed write leaves the file as it was.
save_conversation_skipped(d, conversation_id, log, outcome) ==
    IF outcome = "write_fails" THEN Put(d, conversation_id, Corrupt) ELSE d

\* _save_conversation's effect on the files.
save_conversation(d, conversation_id, log, outcome) ==
    CASE outcome = "ok" -> Put(d, conversation_id, Stored(log))
      [] outcome = "open_fails" -> d
      [] OTHER -> Put(d, conversation_id, Corrupt)

Faults(outcome) == IF outcome = "ok" THEN 0 ELSE 1

(***************************************************************************)
(* What the handlers decide before they write: the value returned early,   *)
(* or the log to assign.                                                   *)
(***************************************************************************)
Early(result) == [mutates |-> FALSE, result |-> result, log |-> <<>>]
Assigns(log) == [mutates |-> TRUE, result |-> "ok", log |-> log]

edit_message_result(store, conversation_id, message_id, new_content, preserve_history, t) ==
    LET parsed == parse_index(message_id)
    IN IF conversation_id \notin DOMAIN store THEN Early("conversation_not_found")
       ELSE IF ~parsed.ok THEN Early(parsed.err)
       ELSE IF parsed.idx >= Len(store[conversation_id]) THEN Early("message_not_found")
       ELSE LET r == edit_message_log(store[conversation_id], parsed.idx,
                                      new_content, preserve_history, t)
            IN IF r.raised THEN Early("index_error") ELSE Assigns(r.log)

retry_message_result(store, conversation_id, message_id, modified_content, preserve_history, t) ==
    LET parsed == parse_index(message_id)
    IN IF conversation_id \notin DOMAIN store THEN Early("conversation_not_found")
       ELSE IF ~parsed.ok THEN Early(parsed.err)
       ELSE IF parsed.idx >= Len(store[conversation_id]) THEN Early("message_not_found")
       ELSE LET r == retry_message_log(store[conversation_id], parsed.idx, message_id,
                                       modified_content, preserve_history, t)
            IN IF r.raised THEN Early("index_error") ELSE Assigns(r.log)

retry_response_result(store, conversation_id, message_id, preserve_history, t) ==
    LET parsed == parse_index(message_id)
    IN IF conversation_id \notin DOMAIN store THEN Early("conversation_not_found")
       ELSE IF ~parsed.ok THEN Early(parsed.err)
       ELSE IF parsed.idx >= Len(store[conversation_id]) THEN Early("message_not_found")
       ELSE IF question_index(parsed.idx) < 0
               \/ question_index(parsed.idx) >= Len(store[conversation_id])
            THEN Early("invalid_response_retry")
       ELSE LET r == retry_response_log(store[conversation_id], parsed.idx,
                                        message_id, preserve_history, t)
            IN IF r.raised THEN Early("index_error") ELSE Assigns(r.log)

(***************************************************************************)
(* The record of the most recent call: the handler, what it returned       *)
(* (raised = TRUE: an exception left the handler), the conversation id the *)
(* caller named (cid) and the one the handler worked on (id), and, for a   *)
(* call that assigned a log, its arguments.                                *)
(***************************************************************************)
Call(op, result, raised, cid, id, mid, content, preserve) ==
    [op |-> op, result |-> result, raised |-> raised, cid |-> cid, id |-> id,
     mid |-> mid, content |-> content, preserve |-> preserve]

SaveResult(outcome) == IF outcome = "ok" THEN "ok" ELSE "save_error"

\* History of appends, kept while `appended.on`.
Tracked(seq) == [tracked |-> TRUE, seq |-> seq]
Untracked == [tracked |-> FALSE, seq |-> <<>>]

TrackCreate(id) ==
    IF appended.on THEN [appended EXCEPT !.of = Put(@, id, Tracked(<<>>))]
    ELSE appended

TrackAppend(id, interaction) ==
    IF ~appended.on THEN appended
    ELSE IF id \in DOMAIN appended.of /\ appended.of[id].tracked
            /\ Len(appended.of[id].seq) < MaxTrack
    THEN [appended EXCEPT !.of = Put(@, id, Tracked(Append(@[id].seq, interaction)))]
    ELSE [appended EXCEPT !.of = Put(@, id, Untracked)]

TrackRewrite(id) ==
    IF appended.on THEN [appended EXCEPT !.of = Put(@, id, Untracked)] ELSE appended

TrackDelete(id) ==
    IF appended.on THEN [appended EXCEPT !.of = Drop(@, id)] ELSE appended

\* The state after ConversationMemory() over an empty storage directory.
InitStore ==
    /\ conversations = EmptyMap
    /\ disk = EmptyMap
    /\ nextId = 1
    /\ now = 0
    /\ last = Call("init", "ok", FALSE, 0, 0, <<>>, None, FALSE)

\* Storage that does not fail.
Init ==
    /\ InitStore
    /\ faultsLeft = 0
    /\ appended = [on |-> FALSE, of |-> EmptyMap]

\* Storage that may fail MaxFailures times.
InitFaults ==
    /\ InitStore
    /\ faultsLeft = MaxFailures
    /\ appended = [on |-> FALSE, of |-> EmptyMap]

\* Storage that does not fail, with the history of appends kept.
InitAppend ==
    /\ InitStore
    /\ faultsLeft = 0
    /\ appended = [on |-> TRUE, of |-> EmptyMap]

(***************************************************************************)
(* The calls made on the store.                                            *)
(***************************************************************************)
\* The ids a caller can name: those handed out so far, and 0, an id the
\* store never handed out.
CallerIds == 0..(nextId - 1)

\* The message indices callers pass.
Indices == (-NegIdx)..MaxLen

\* The message identifiers a caller passes for conversation c: well formed
\* with any index, without an underscore, and with a non-numeric index; for
\* an id the store does not hold, one of them (the handler returns before
\* it looks at it).
MessageIds(c) ==
    IF c \in DOMAIN conversations
    THEN {MessageId(c, i) : i \in Indices} \cup {<<UuidSeg(c)>>, <<UuidSeg(c), WordSeg>>}
    ELSE {MessageId(c, 0)}

\* Optional[str] arguments.
OptTexts == {None, Some("")} \cup {Some(x) : x \in RetryTexts}

\* The reading datetime.now() gives next: later than the last one.
Clock == {now + 1} \cap (0..MaxClock)

\* A handler that empties the log it was called on before it returns.
Returns_emptied(op, result, id) ==
    /\ last' = Call(op, result, FALSE, id, id, <<>>, None, FALSE)
    /\ conversations' = IF id \in DOMAIN conversations
                        THEN Put(conversations, id, <<>>) ELSE conversations
    /\ UNCHANGED <<disk, nextId, now, faultsLeft, appended>>

\* A handler that returns before it touches anything.
Returns(op, result, id) ==
    /\ last' = Call(op, result, FALSE, id, id, <<>>, None, FALSE)
    /\ UNCHANGED <<conversations, disk, nextId, now, faultsLeft, appended>>

\* The tail shared by edit_message, retry_message and retry_response: the
\* log is assigned, _save_conversation runs, and an exception it raises is
\* caught by the handler and returned as {"error": str(e)}.
AssignAndSave(op, conversation_id, message_id, content, preserve_history, log, t) ==
    \E o \in SaveOutcomes :
        /\ conversations' = Put(conversations, conversation_id, log)
        /\ disk' = save_conversation(disk, conversation_id, log, o)
        /\ faultsLeft' = faultsLeft - Faults(o)
        /\ now' = t
        /\ appended' = TrackRewrite(conversation_id)
        /\ last' = Call(op, SaveResult(o), FALSE, conversation_id, conversation_id,
                        message_id, content, preserve_history)
        /\ UNCHANGED nextId

create_conversation ==
    /\ nextId <= MaxConvs
    /\ \E o \in SaveOutcomes :
        /\ conversations' = Put(conversations, nextId, <<>>)
        /\ disk' = save_conversation(disk, nextId, <<>>, o)
        /\ faultsLeft' = faultsLeft - Faults(o)
        /\ nextId' = nextId + 1
        /\ appended' = TrackCreate(nextId)
        /\ last' = Call("create", SaveResult(o), o # "ok", nextId, nextId, <<>>, None, FALSE)
        /\ UNCHANGED now

\* add_interaction on a conversation of the store.
add_interaction_known(conversation_id, question, response, context_used) ==
    /\ conversation_id \in DOMAIN conversations
    /\ \E t \in Clock, o \in SaveOutcomes :
        LET interaction == NewInteraction(t, question, response, context_used)
            log == add_interaction_log(conversations[conversation_id], interaction)
        IN /\ conversations' = Put(conversations, conversation_id, log)
           /\ disk' = save_conversation(disk, conversation_id, log, o)
           /\ faultsLeft' = faultsLeft - Faults(o)
           /\ now' = t
           /\ appended' = TrackAppend(conversation_id, interaction)
           /\ last' = Call("append", SaveResult(o), o # "ok", conversation_id,
                           conversation_id, <<>>, Some(question), FALSE)
           /\ UNCHANGED nextId

\* An append that goes on with the id the caller gave.
new_conversation_id_callers(conversation_id, created) == conversation_id

\* An append that brings back the conversation of an id handed out before.
new_conversation_id_revived(conversation_id, created) ==
    IF conversation_id >= 1 THEN conversation_id ELSE created

\* conversation_id = self.create_conversation(): the id add_interaction goes
\* on with when the store does not hold the caller's.
new_conversation_id(conversation_id, created) == created

\* add_interaction on an id the store does not hold: create_conversation
\* runs first and its id replaces the caller's.
add_interaction_unknown(conversation_id, question, response, context_used) ==
    /\ conversation_id \notin DOMAIN conversations
    /\ nextId <= MaxConvs
    /\ \E t \in Clock, o1 \in SaveOutcomes :
        LET id == new_conversation_id(conversation_id, nextId)
            interaction == NewInteraction(t, question, response, context_used)
            log == add_interaction_log(<<>>, interaction)
            d1 == save_conversation(disk, id, <<>>, o1)
        IN /\ nextId' = nextId + 1
           /\ IF o1 # "ok"
              THEN \* create_conversation's write raised: nothing is appended
                   /\ conversations' = Put(conversations, id, <<>>)
                   /\ disk' = d1
                   /\ faultsLeft' = faultsLeft - 1
                   /\ appended' = TrackCreate(id)
                   /\ last' = Call("append", "save_error", TRUE, conversation_id, id,
                                   <<>>, Some(question), FALSE)
                   /\ UNCHANGED now
              ELSE \E o2 \in SaveOutcomes :
                   /\ conversations' = Put(conversations, id, log)
                   /\ disk' = save_conversation(d1, id, log, o2)
                   /\ faultsLeft' = faultsLeft - Faults(o2)
                   /\ now' = t
                   /\ appended' = IF appended.on
                                  THEN [appended EXCEPT
                                          !.of = Put(@, id, Tracked(<<interaction>>))]
                                  ELSE appended
                   /\ last' = Call("append", SaveResult(o2), o2 # "ok", conversation_id,
                                   id, <<>>, Some(question), FALSE)

\* A delete that removes the conversation from memory and leaves its file.
delete_conversation_keeps_file(conversation_id) ==
    IF conversation_id \notin DOMAIN conversations
    THEN Returns("delete", "false", conversation_id)
    ELSE /\ conversations' = Drop(conversations, conversation_id)
         /\ appended' = TrackDelete(conversation_id)
         /\ last' = Call("delete", "true", FALSE, conversation_id, conversation_id,
                         <<>>, None, FALSE)
         /\ UNCHANGED <<disk, nextId, now, faultsLeft>>

delete_conversation(conversation_id) ==
    IF conversation_id \notin DOMAIN conversations
    THEN Returns("delete", "false", conversation_id)
    ELSE \E o \in (IF conversation_id \in DOMAIN disk /\ faultsLeft > 0
                   THEN {"ok", "unlink_fails"} ELSE {"ok"}) :
         IF o = "ok"
         THEN /\ disk' = Drop(disk, conversation_id)
              /\ conversations' = Drop(conversations, conversation_id)
              /\ appended' = TrackDelete(conversation_id)
              /\ last' = Call("delete", "true", FALSE, conversation_id, conversation_id,
                              <<>>, None, FALSE)
              /\ UNCHANGED <<nextId, now, faultsLeft>>
         ELSE \* file_path.unlink() raised: the exception leaves the handler
              /\ faultsLeft' = faultsLeft - 1
              /\ last' = Call("delete", "unlink_error", TRUE, conversation_id,
                              conversation_id, <<>>, None, FALSE)
              /\ UNCHANGED <<conversations, disk, nextId, now, appended>>

edit_message(conversation_id, message_id, new_content, preserve_history) ==
    \E t \in Clock :
        LET r == edit_message_result(conversations, conversation_id, message_id,
                                     new_content, preserve_history, t)
        IN IF ~r.mutates THEN Returns("edit", r.result, conversation_id)
           ELSE AssignAndSave("edit", conversation_id, message_id, Some(new_content),
                              preserve_history, r.log, t)

retry_message(conversation_id, message_id, modified_content, preserve_history) ==
    \E t \in Clock :
        LET r == retry_message_result(conversations, conversation_id, message_id,
                                      modified_content, preserve_history, t)
        IN IF ~r.mutates THEN Returns("retry_message", r.result, conversation_id)
           ELSE /\ Len(r.log) <= MaxLen
                /\ AssignAndSave("retry_message", conversation_id, message_id,
                                 modified_content, preserve_history, r.log, t)

retry_response(conversation_id, message_id, preserve_history) ==
    \E t \in Clock :
        LET r == retry_response_result(conversations, conversation_id, message_id,
                                       preserve_history, t)
        IN IF ~r.mutates THEN Returns("retry_response", r.result, conversation_id)
           ELSE /\ Len(r.log) <= MaxLen
                /\ \A k \in 1..Len(r.log) : RetryCount(r.log[k]) <= MaxRetryCount
                /\ AssignAndSave("retry_response", conversation_id, message_id, None,
                                 preserve_history, r.log, t)

Create == create_conversation
AppendKnown ==
    \E c \in CallerIds, q \in Texts :
        add_interaction_known(c, q, [response |-> "ans"], <<"doc">>)
AppendUnknown ==
    \E c \in CallerIds, q \in Texts :
        add_interaction_unknown(c, q, [response |-> "ans"], <<"doc">>)
Delete == \E c \in CallerIds : delete_conversation(c)
Edit ==
    \E c \in CallerIds, x \in EditTexts, p \in BOOLEAN :
        \E m \in MessageIds(c) : edit_message(c, m, x, p)
RetryMessage ==
    \E c \in CallerIds, x \in OptTexts, p \in BOOLEAN :
        \E m \in MessageIds(c) : retry_message(c, m, x, p)
RetryResponse ==
    \E c \in CallerIds, p \in BOOLEAN :
        \E m \in MessageIds(c) : retry_response(c, m, p)

Next ==
    \/ Create
    \/ AppendKnown
    \/ AppendUnknown
    \/ Delete
    \/ Edit
    \/ RetryMessage
    \/ RetryResponse

\* Calls on a store whose storage does not fail.
Spec == Init /\ [][Next]_vars

\* edit and retry calls whose message identifier names an interaction of the
\* log.
InRangeIds(c) ==
    IF c \in DOMAIN conversations
    THEN {MessageId(c, i) : i \in 0..(Len(conversations[c]) - 1)}
    ELSE {}
EditInRange ==
    \E c \in CallerIds, x \in EditTexts, p \in BOOLEAN :
        \E m \in InRangeIds(c) : edit_message(c, m, x, p)
RetryMessageInRange ==
    \E c \in CallerIds, x \in {None} \cup {Some(x) : x \in RetryTexts}, p \in BOOLEAN :
        \E m \in InRangeIds(c) : retry_message(c, m, x, p)
RetryResponseInRange ==
    \E c \in CallerIds, p \in BOOLEAN :
        \E m \in InRangeIds(c) : retry_response(c, m, p)

NextFaults ==
    \/ Create
    \/ AppendKnown
    \/ AppendUnknown
    \/ Delete
    \/ EditInRange
    \/ RetryMessageInRange
    \/ RetryResponseInRange

\* Calls on a store whose storage may fail.
SpecFaults == InitFaults /\ [][NextFaults]_vars

NextAppend == Create \/ AppendKnown \/ AppendUnknown \/ Delete

\* create, append and delete only, with the history of appends kept.
SpecAppend == InitAppend /\ [][NextAppend]_vars

(***************************************************************************)
(* The handlers that read the store, cleanup and restart.                  *)
(***************************************************************************)
\* list[start:] of Python, start possibly negative.
PySliceFrom(s, start) ==
    LET lo == IF start < 0 THEN Max(Len(s) + start, 0) ELSE Min(start, Len(s))
    IN SubSeq(s, lo + 1, Len(s))

\* The num_previous values callers pass.
NumPrevious == 0..(max_history + 1)

\* get_conversation_context: conversation[-num_previous:], [] for an unknown
\* or empty conversation.
get_conversation_context(store, conversation_id, num_previous) ==
    IF conversation_id \notin DOMAIN store THEN <<>>
    ELSE IF store[conversation_id] = <<>> THEN <<>>
    ELSE PySliceFrom(store[conversation_id], -num_previous)

\* The dict get_conversation_summary returns; error = None when it is a
\* summary.
Summary(error, total_interactions, start_time, last_interaction, questions_asked) ==
    [error |-> error, total_interactions |-> total_interactions,
     start_time |-> start_time, last_interaction |-> last_interaction,
     questions_asked |-> questions_asked]
SummaryError(message) == Summary(Some(message), 0, 0, 0, <<>>)

\* The first definition of get_conversation_summary in the class, which the
\* second one replaces: an empty conversation is an error.
get_conversation_summary_first(store, conversation_id, t) ==
    IF conversation_id \notin DOMAIN store THEN SummaryError("Conversation not found")
    ELSE LET conversation == store[conversation_id]
         IN IF conversation = <<>> THEN SummaryError("Empty conversation")
            ELSE Summary(None, Len(conversation), conversation[1].timestamp,
                         conversation[Len(conversation)].timestamp, Questions(conversation))

\* get_conversation_summary (the definition in force); t is what
\* datetime.now() reads for an empty conversation.
get_conversation_summary(store, conversation_id, t) ==
    IF conversation_id \notin DOMAIN store THEN SummaryError("Conversation not found")
    ELSE LET conversation == store[conversation_id]
         IN IF conversation = <<>> THEN Summary(None, 0, t, t, <<>>)
            ELSE Summary(None, Len(conversation), conversation[1].timestamp,
                         conversation[Len(conversation)].timestamp, Questions(conversation))

\* list_conversations: one entry per conversation of the store.
list_conversations(store) ==
    {[conversation_id |-> c, interactions |-> Len(store[c]),
      last_interaction |-> IF store[c] = <<>> THEN None
                           ELSE Some(store[c][Len(store[c])].timestamp)] :
        c \in DOMAIN store}

\* The record of a call that returns a value: the call, its argument and the
\* value.
Reply(op, result, id, arg, value) ==
    Call(op, result, FALSE, id, id, <<>>, None, FALSE) @@ [arg |-> arg, value |-> value]

GetContext ==
    \E c \in CallerIds, n \in NumPrevious :
        /\ last' = Reply("get_context", "ok", c, n, get_conversation_context(conversations, c, n))
        /\ UNCHANGED <<conversations, disk, nextId, now, faultsLeft, appended>>

GetSummary ==
    \E c \in CallerIds :
        LET summary == get_conversation_summary(conversations, c, now + 1)
        IN /\ last' = Reply("get_summary", IF summary.error = None THEN "ok" ELSE "error",
                            c, 0, summary)
           /\ UNCHANGED <<conversations, disk, nextId, now, faultsLeft, appended>>

ListConversations ==
    /\ last' = Reply("list", "ok", 0, 0, list_conversations(conversations))
    /\ UNCHANGED <<conversations, disk, nextId, now, faultsLeft, appended>>

\* Clock readings per day.
DayLen == 2

\* A timestamp string datetime.fromisoformat rejects, written as an instant
\* no clock reading gives.
NotIso == -1

\* Days that count a started day as a whole one.
Days_started(current_time, last_time) ==
    (current_time - last_time + DayLen - 1) \div DayLen

\* (current_time - last_time).days: whole days, rounded down.
Days(current_time, last_time) == (current_time - last_time) \div DayLen

\* The max_age_days values callers pass.
MaxAges == 0..1

\* What cleanup_old_conversations has done so far: the store, the files,
\* deleted_count, and whether an exception ended the loop.
Cleaned(store, d, deleted_count, raised) ==
    [conversations |-> store, disk |-> d, deleted_count |-> deleted_count,
     raised |-> raised]

\* The loop of cleanup_old_conversations over the keys left to visit.
\* unlink_fails is the conversation whose file cannot be removed (0: none).
RECURSIVE cleanup_loop(_, _, _, _, _)
cleanup_loop(acc, keys, current_time, max_age_days, unlink_fails) ==
    IF keys = <<>> THEN acc
    ELSE LET conv_id == Head(keys)
             conversation == acc.conversations[conv_id]
             deleted == Cleaned(Drop(acc.conversations, conv_id), Drop(acc.disk, conv_id),
                                acc.deleted_count + 1, FALSE)
             delete == IF conv_id = unlink_fails /\ conv_id \in DOMAIN acc.disk
                       THEN [acc EXCEPT !.raised = TRUE]
                       ELSE cleanup_loop(deleted, Tail(keys), current_time, max_age_days,
                                         unlink_fails)
         IN IF conversation = <<>> THEN delete
            ELSE LET last_interaction == conversation[Len(conversation)].timestamp
                 IN IF last_interaction = NotIso THEN [acc EXCEPT !.raised = TRUE]
                    ELSE IF Days(current_time, last_interaction) > max_age_days THEN delete
                    ELSE cleanup_loop(acc, Tail(keys), current_time, max_age_days,
                                      unlink_fails)

\* list(self.conversations.keys()): the ids in the order of the dict.
RECURSIVE Keys(_)
Keys(ids) ==
    IF ids = {} THEN <<>>
    ELSE LET first == CHOOSE c \in ids : \A o \in ids : c <= o
         IN <<first>> \o Keys(ids \ {first})

\* The count cleanup_old_conversations returns: deleted_count, or 0 from
\* its except clause.
cleanup_count(deleted_count, raised) == IF raised THEN 0 ELSE deleted_count

cleanup_old_conversations(max_age_days) ==
    \E unlink_fails \in {0} \cup (IF faultsLeft > 0 THEN DOMAIN disk ELSE {}) :
        LET done == cleanup_loop(Cleaned(conversations, disk, 0, FALSE),
                                 Keys(DOMAIN conversations), now + 1, max_age_days,
                                 unlink_fails)
            unlinked == unlink_fails # 0 /\ done.raised
                        /\ unlink_fails \in DOMAIN done.conversations
                        /\ \A c \in DOMAIN done.conversations :
                               c < unlink_fails =>
                                   /\ done.conversations[c] # <<>>
                                   /\ done.conversations[c][Len(done.conversations[c])].timestamp
                                          # NotIso
        IN /\ unlink_fails # 0 => unlinked
           /\ conversations' = done.conversations
           /\ disk' = done.disk
           /\ faultsLeft' = IF unlinked THEN faultsLeft - 1 ELSE faultsLeft
           /\ appended' = IF appended.on
                          THEN [appended EXCEPT
                                  !.of = [c \in DOMAIN @ \cap DOMAIN done.conversations |-> @[c]]]
                          ELSE appended
           /\ last' = Reply("cleanup", IF done.raised THEN "error" ELSE "ok", 0,
                            max_age_days, cleanup_count(done.deleted_count, done.raised))
           /\ UNCHANGED <<nextId, now>>

Cleanup == \E d \in MaxAges : cleanup_old_conversations(d)

\* A loading that skips the files that hold an empty log.
load_conversations_nonempty(d) ==
    IF \E c \in DOMAIN d : ~d[c].valid THEN EmptyMap
    ELSE [c \in {k \in DOMAIN d : d[k].log # <<>>} |-> d[c].log]

\* _load_conversations: every file is read; the first one json.load rejects
\* ends the loading with {}.
load_conversations(d) ==
    IF \E c \in DOMAIN d : ~d[c].valid THEN EmptyMap
    ELSE [c \in DOMAIN d |-> d[c].log]

\* A new ConversationMemory over the same storage directory.
Restart ==
    /\ conversations' = load_conversations(disk)
    /\ appended' = IF appended.on THEN [appended EXCEPT !.of = EmptyMap] ELSE appended
    /\ last' = Reply("restart", "ok", 0, 0, 0)
    /\ UNCHANGED <<disk, nextId, now, faultsLeft>>

NextQueries ==
    \/ Create
    \/ AppendKnown
    \/ AppendUnknown
    \/ Delete
    \/ EditInRange
    \/ RetryMessageInRange
    \/ RetryResponseInRange
    \/ GetContext
    \/ GetSummary
    \/ ListConversations
    \/ Cleanup
    \/ Restart

\* The whole interface of the store, on storage that does not fail.
SpecQueries == Init /\ [][NextQueries]_vars

\* cleanup_old_conversations' default max_age_days.
DefaultMaxAge == 30

\* Ages in days of the last interaction of the conversations a store older
\* than DefaultMaxAge days holds.
ExampleAges == {10, 29, 30, 31, 100}

\* The same in clock readings, with one that is DefaultMaxAge days and a
\* part of a day.
ExampleTicks ==
    {a * DayLen : a \in ExampleAges} \cup {DefaultMaxAge * DayLen + (DayLen - 1)}

\* The time of the store loaded from files written over the last 100 days.
Horizon == CHOOSE t \in ExampleTicks : \A a \in ExampleTicks : a <= t

\* The logs the files hold: empty, one interaction of some age, one
\* interaction whose timestamp is not an ISO date.
LoadedLogs ==
    {<<>>} \cup {<<NewInteraction(ts, "a", [response |-> "ans"], <<"doc">>)>> :
                    ts \in {Horizon + 1 - a : a \in ExampleTicks} \cup {NotIso}}

LoadedIds == 1..Cardinality(ExampleAges)

\* The state after ConversationMemory() over a directory of such files.
InitLoaded ==
    /\ conversations \in [LoadedIds -> LoadedLogs]
    /\ disk = [c \in LoadedIds |-> Stored(conversations[c])]
    /\ nextId = Cardinality(LoadedIds) + 1
    /\ now = Horizon
    /\ faultsLeft = MaxFailures
    /\ appended = [on |-> FALSE, of |-> EmptyMap]
    /\ last = Call("init", "ok", FALSE, 0, 0, <<>>, None, FALSE)

CleanupDefault == cleanup_old_conversations(DefaultMaxAge)

NextCleanup == CleanupDefault

\* cleanup on a loaded store, on storage that may fail.
SpecCleanup == InitLoaded /\ [][NextCleanup]_vars

(***************************************************************************)
(* Conversation ids that contain underscores: _load_conversations takes    *)
(* the id from the file name, conversation_<id>.json, whatever it is.  An  *)
(* id is written here as the sequence of its underscore-separated          *)
(* segments.                                                               *)
(***************************************************************************)
\* "team_x", "team_0", "team_1".
NamedIds == {<<WordSeg, WordSeg>>, <<WordSeg, IntSeg(0)>>, <<WordSeg, IntSeg(1)>>}

\* f"{conversation_id}_{i}" for such an id.
NamedMessageId(conversation_id, i) == conversation_id \o <<IntSeg(i)>>

RECURSIVE LogsOfLen(_)
\* The logs of n interactions appended at times 1..n.
LogsOfLen(n) ==
    IF n = 0 THEN {<<>>}
    ELSE {Append(log, NewInteraction(n, q, [response |-> "ans"], <<"doc">>)) :
              log \in LogsOfLen(n - 1), q \in Texts}

\* The state after ConversationMemory() over a directory that holds one
\* file, of a conversation with such an id.
InitNamed ==
    /\ \E c \in NamedIds, n \in 1..(max_history + 1) : \E log \in LogsOfLen(n) :
           /\ conversations = [k \in {c} |-> log]
           /\ disk = [k \in {c} |-> Stored(log)]
    /\ nextId = 1
    /\ now = max_history + 1
    /\ faultsLeft = 0
    /\ appended = [on |-> FALSE, of |-> EmptyMap]
    /\ last = Call("init", "ok", FALSE, 0, 0, <<>>, None, FALSE)

\* The identifiers that name the interactions of conversation c.
NamedInRangeIds(c) == {NamedMessageId(c, i) : i \in 0..(Len(conversations[c]) - 1)}

EditNamed ==
    \E c \in DOMAIN conversations, x \in EditTexts, p \in BOOLEAN :
        \E m \in NamedInRangeIds(c) : edit_message(c, m, x, p)
RetryMessageNamed ==
    \E c \in DOMAIN conversations, x \in OptTexts, p \in BOOLEAN :
        \E m \in NamedInRangeIds(c) : retry_message(c, m, x, p)
RetryResponseNamed ==
    \E c \in DOMAIN conversations, p \in BOOLEAN :
        \E m \in NamedInRangeIds(c) : retry_response(c, m, p)

NextNamed == EditNamed \/ RetryMessageNamed \/ RetryResponseNamed

\* edit and retry calls on a loaded conversation whose id has underscores.
SpecNamed == InitNamed /\ [][NextNamed]_vars

(***************************************************************************)
(* The routes of src/app/routers/conversation.py and                       *)
(* src/app/routers/chat.py, which call the store.                          *)
(***************************************************************************)
\* list[start:stop] of Python.
PySlice(s, start, stop) ==
    LET n == Len(s)
        lo == IF start < 0 THEN Max(n + start, 0) ELSE Min(start, n)
        hi == IF stop < 0 THEN Max(n + stop, 0) ELSE Min(stop, n)
    IN SubSeq(s, lo + 1, hi)

\* list_conversations as the list it is: the entries in the order of the
\* dict.
list_conversations_list(store) ==
    LET keys == Keys(DOMAIN store)
    IN [k \in 1..Len(keys) |->
           [conversation_id |-> keys[k], interactions |-> Len(store[keys[k]]),
            last_interaction |-> IF store[keys[k]] = <<>> THEN None
                                 ELSE Some(store[keys[k]][Len(store[keys[k]])].timestamp)]]

\* The empty string, which sorts below every ISO timestamp: an instant
\* before every reading of the clock.
EmptyStr == 0

\* The sort keys of list_conversations' two lambdas.
sort_key(x, sort_by) ==
    IF sort_by = "last_interaction"
    THEN IF x.last_interaction # None THEN x.last_interaction[1] ELSE EmptyStr
    ELSE x.interactions

RECURSIVE sort(_, _)
\* list.sort(key=..., reverse=...) on a list of [key, entry]: stable, also
\* when reversed (equal keys keep the order they had).
sort(items, reverse) ==
    IF items = <<>> THEN <<>>
    ELSE LET n == Len(items)
             x == items[n]
             rest == sort(SubSeq(items, 1, n - 1), reverse)
             before == {k \in 1..Len(rest) :
                           IF reverse THEN rest[k].key >= x.key
                           ELSE rest[k].key <= x.key}
             b == Cardinality(before)
         IN SubSeq(rest, 1, b) \o <<x>> \o SubSeq(rest, b + 1, Len(rest))

\* A page that always starts at the first conversation.
paginate_first_page(conversations_, offset, limit) == PySlice(conversations_, 0, limit)

\* paginated_conversations = conversations[offset:offset + limit]
paginate(conversations_, offset, limit) == PySlice(conversations_, offset, offset + limit)

\* GET /conversation: list, sort by the chosen key, cut the page, and give
\* the summary of each conversation of the page that has one.
router_list_conversations(store, limit, offset, sort_by, order, t) ==
    LET listed == list_conversations_list(store)
        keyed == [k \in 1..Len(listed) |->
                     [key |-> sort_key(listed[k], sort_by), entry |-> listed[k]]]
        sorted == IF sort_by \in {"last_interaction", "total_interactions"}
                  THEN sort(keyed, order = "desc")
                  ELSE keyed
        paginated_conversations == paginate(sorted, offset, limit)
        summaries == [k \in 1..Len(paginated_conversations) |->
                         [conversation_id |-> paginated_conversations[k].entry.conversation_id,
                          summary |-> get_conversation_summary(
                                          store,
                                          paginated_conversations[k].entry.conversation_id, t)]]
        detailed_conversations == SelectSeq(summaries, LAMBDA e : e.summary.error = None)
    IN [conversations |-> detailed_conversations,
        metadata |-> [total |-> Len(sorted), returned |-> Len(detailed_conversations),
                      offset |-> offset, limit |-> limit,
                      sort_by |-> sort_by, order |-> order]]

\* Number of conversations of the listed store, and of clock readings
\* before it was listed.
MaxListed == 3

\* The query parameters callers pass.
Limits == 0..MaxListed
Offsets == 0..MaxListed
SortKeys == {"last_interaction", "total_interactions", "title"}
Orders == {"asc", "desc"}

\* The logs of the listed store: empty, one interaction made at some time,
\* two interactions made at times 1 and 2.
ListedLogs ==
    {<<>>}
    \cup {<<NewInteraction(t, "a", [response |-> "ans"], <<"doc">>)>> : t \in 1..MaxListed}
    \cup {<<NewInteraction(1, "a", [response |-> "ans"], <<"doc">>),
            NewInteraction(2, "b", [response |-> "ans"], <<"doc">>)>>}

\* A store of MaxListed conversations with such logs.
InitListed ==
    /\ conversations \in [1..MaxListed -> ListedLogs]
    /\ disk = [c \in 1..MaxListed |-> Stored(conversations[c])]
    /\ nextId = MaxListed + 1
    /\ now = MaxListed
    /\ faultsLeft = 0
    /\ appended = [on |-> FALSE, of |-> EmptyMap]
    /\ last = Call("init", "ok", FALSE, 0, 0, <<>>, None, FALSE)

ListPage ==
    \E limit \in Limits, offset \in Offsets, sort_by \in SortKeys, order \in Orders :
        /\ last' = Reply("router_list", "ok", 0,
                         [limit |-> limit, offset |-> offset,
                          sort_by |-> sort_by, order |-> order],
                         router_list_conversations(conversations, limit, offset,
                                                   sort_by, order, now + 1))
        /\ UNCHANGED <<conversations, disk, nextId, now, faultsLeft, appended>>

NextListing == ListPage

\* Pages of the listing of a store of MaxListed conversations.
SpecListing == InitListed /\ [][NextListing]_vars

\* The store as a value, for a route that calls it more than once: the
\* logs, the files and the next id uuid4() returns.
StoreOf(logs, files, next) == [conversations |-> logs, disk |-> files, nextId |-> next]

\* What a route answers: the HTTP status, the store it leaves, and the last
\* reading of the clock it took (t0 when it took none).
Answer(status, st, t) == [status |-> status, st |-> st, now |-> t]

\* self.conversations[conversation_id] = log; self._save_conversation(...),
\* on storage that does not fail.
assign_store(st, conversation_id, log) ==
    [st EXCEPT !.conversations = Put(@, conversation_id, log),
               !.disk = save_conversation(@, conversation_id, log, "ok")]

\* add_interaction, on storage that does not fail: an id the store does not
\* hold is replaced by the id of a conversation created for the call.
add_interaction_store(st, conversation_id, question, response, context_used, t) ==
    LET known == conversation_id \in DOMAIN st.conversations
        id == IF known THEN conversation_id
              ELSE new_conversation_id(conversation_id, st.nextId)
        created == IF known THEN st
                   ELSE [assign_store(st, id, <<>>) EXCEPT !.nextId = @ + 1]
        log == add_interaction_log(created.conversations[id],
                                   NewInteraction(t, question, response, context_used))
    IN assign_store(created, id, log)

\* get_conversation_context's default num_previous.
DefaultNumPrevious == 3

\* get_conversation_detail's default message_limit.
DefaultMessageLimit == 50

\* `not d` for a dict: true of the dict without keys only.
NotDict(d) == DOMAIN d = {}

\* POST /ask with a conversation id: the answer of the pipeline (document
\* query and model) is appended by add_interaction; a pipeline that raises
\* (answered = FALSE) gives 500 before anything is appended.
ask_question(st, conversation_id, question, answered, t0, t) ==
    IF ~answered THEN Answer(500, st, t0)
    ELSE Answer(200, add_interaction_store(st, conversation_id, question,
                                           [response |-> "ans"], <<"doc">>, t), t)

\* POST /conversation/{id}/continue: 404 when `not summary`, else
\* ask_question with the id.
continue_conversation(st, conversation_id, question, answered, t0, t) ==
    IF NotDict(get_conversation_summary(st.conversations, conversation_id, t))
    THEN Answer(404, st, t0)
    ELSE ask_question(st, conversation_id, question, answered, t0, t)

\* The messages get_conversation_detail makes of the history: for the
\* interaction at index i of the history, a user message with id
\* f"{conversation_id}_{i*2}" and an assistant message with id
\* f"{conversation_id}_{i*2+1}".
detail_messages(conversation_id, history) ==
    [k \in 1..(2 * Len(history)) |->
        LET index == (k - 1) \div 2
            interaction == history[index + 1]
        IN IF k % 2 = 1
           THEN [id |-> MessageId(conversation_id, index * 2), role |-> "user",
                 content |-> interaction.question,
                 timestamp |-> interaction.timestamp]
           ELSE [id |-> MessageId(conversation_id, index * 2 + 1), role |-> "assistant",
                 content |-> interaction.response.response,
                 timestamp |-> interaction.timestamp]]

\* GET /conversation/{id}/detail.
get_conversation_detail(store, conversation_id, message_limit, t) ==
    LET history == get_conversation_context(store, conversation_id, message_limit)
        summary == get_conversation_summary(store, conversation_id, t)
        messages == detail_messages(conversation_id, history)
    IN IF NotDict(summary) \/ summary.error # None
       THEN [status |-> 404, messages |-> <<>>, total_messages |-> 0,
             has_more |-> FALSE, total_interactions |-> 0]
       ELSE [status |-> 200, messages |-> messages, total_messages |-> Len(messages),
             has_more |-> Len(messages) >= message_limit,
             total_interactions |-> summary.total_interactions]

\* message_id.endswith("_user"): the last segment is the word.
EndsWithUser(message_id) ==
    Len(message_id) >= 2 /\ message_id[Len(message_id)] = WordSeg

\* PATCH .../messages/{message_id}/edit: the store's edit_message; its
\* {"error": ...} raises HTTPException(404) inside the try, which the
\* route's only clause, `except Exception`, turns into 500; an id that ends
\* with "_user" asks the new content as a question.
router_edit_message(st, conversation_id, message_id, new_content, preserve_history, answered, t0, t1, t2) ==
    LET r == edit_message_result(st.conversations, conversation_id, message_id,
                                 new_content, preserve_history, t1)
    IN IF ~r.mutates THEN Answer(500, st, t0)
       ELSE LET st1 == assign_store(st, conversation_id, r.log)
            IN IF EndsWithUser(message_id)
               THEN LET a == ask_question(st1, conversation_id, new_content,
                                          answered, t1, t2)
                    IN Answer(a.status, a.st, a.now)
               ELSE Answer(200, st1, t1)

\* POST .../messages/{message_id}/retry: the summary check, the store's
\* retry_message, the question to ask again (modified_content, or the
\* question at msg_index of the context read back from the store), and
\* ask_question with it.
router_retry_message(st, conversation_id, message_id, modified_content, preserve_history, answered, t0, t1, t2) ==
    LET summary == get_conversation_summary(st.conversations, conversation_id, t1)
        r == retry_message_result(st.conversations, conversation_id, message_id,
                                  modified_content, preserve_history, t1)
        st1 == assign_store(st, conversation_id, r.log)
        msg_index == parse_index(message_id).idx
        conversation == get_conversation_context(st1.conversations, conversation_id,
                                                 DefaultNumPrevious)
    IN IF NotDict(summary) \/ summary.error # None THEN Answer(404, st, t0)
       ELSE IF ~r.mutates THEN Answer(404, st, t0)
       ELSE IF Truthy(modified_content)
            THEN ask_question(st1, conversation_id, modified_content[1], answered, t1, t2)
       ELSE IF msg_index >= Len(conversation) THEN Answer(404, st1, t1)
       ELSE IF ~PyIndexOk(conversation, msg_index) THEN Answer(500, st1, t1)
       ELSE ask_question(st1, conversation_id,
                         conversation[PyPos(conversation, msg_index)].question,
                         answered, t1, t2)

\* POST .../messages/{message_id}/retry-response: the summary and history
\* checks, the identifier split in exactly two parts, the interaction at
\* msg_index // 2 of the context, and, with preserve_history, its question
\* appended again with a regenerated response.  The store's retry_response
\* is not called.
router_retry_response(st, conversation_id, message_id, preserve_history, t0, t1) ==
    LET summary == get_conversation_summary(st.conversations, conversation_id, t1)
        history == get_conversation_context(st.conversations, conversation_id,
                                            DefaultNumPrevious)
        interaction_index == message_id[2].val \div 2
    IN IF NotDict(summary) \/ summary.error # None THEN Answer(404, st, t0)
       ELSE IF history = <<>> THEN Answer(404, st, t0)
       ELSE IF Len(message_id) # 2 THEN Answer(400, st, t0)
       ELSE IF message_id[2].kind # "int" THEN Answer(400, st, t0)
       ELSE IF interaction_index >= Len(history) THEN Answer(404, st, t0)
       ELSE IF ~PyIndexOk(history, interaction_index) THEN Answer(500, st, t0)
       ELSE IF preserve_history
            THEN Answer(200,
                        add_interaction_store(
                            st, conversation_id,
                            history[PyPos(history, interaction_index)].question,
                            [response |-> "regenerated"], <<>>, t1),
                        t1)
       ELSE Answer(200, st, t0)

\* Number of conversation ids uuid4() hands out in a run of the routes.
MaxRouteConvs == 1

\* The record of a call of a route: its status, its arguments, and the value
\* it returned.
RouteReply(op, status, id, arg, value) ==
    Reply(op, IF status = 200 THEN "ok" ELSE "error", id, arg, value)
        @@ [status |-> status]

\* A route that changes the store: what it answers becomes the state.
RouteStep(op, conversation_id, arg, a) ==
    /\ a.now <= MaxClock
    /\ a.st.nextId <= MaxRouteConvs + 1
    /\ \A c \in DOMAIN a.st.conversations : Len(a.st.conversations[c]) <= MaxLen
    /\ conversations' = a.st.conversations
    /\ disk' = a.st.disk
    /\ nextId' = a.st.nextId
    /\ now' = a.now
    /\ last' = RouteReply(op, a.status, conversation_id, arg, 0)
    /\ UNCHANGED <<faultsLeft, appended>>

\* The identifiers a client passes for conversation c: those the detail
\* view shows for it, the first one (shown or not), and the first with
\* "_user" added.
RouteIds(c) ==
    LET shown == get_conversation_detail(conversations, c, DefaultMessageLimit,
                                         now + 1).messages
    IN {shown[k].id : k \in 1..Len(shown)}
       \cup {MessageId(c, 0), MessageId(c, 0) \o <<WordSeg>>}

\* Whether the pipeline answers, for a call that may reach it: it may
\* raise.
Pipeline(reached) == IF reached THEN BOOLEAN ELSE {TRUE}

\* The message limits clients pass.
MessageLimits == (1..(max_history + 1)) \cup {DefaultMessageLimit}

\* POST /conversation.
CreateRoute == nextId <= MaxRouteConvs /\ create_conversation

Continue ==
    \E c \in CallerIds, q \in Texts, answered \in BOOLEAN :
        RouteStep("continue", c, [question |-> q, answered |-> answered],
                  continue_conversation(StoreOf(conversations, disk, nextId), c, q,
                                        answered, now, now + 1))

Detail ==
    \E c \in CallerIds, message_limit \in MessageLimits :
        LET detail == get_conversation_detail(conversations, c, message_limit, now + 1)
        IN /\ last' = RouteReply("detail", detail.status, c,
                                 [message_limit |-> message_limit], detail)
           /\ UNCHANGED <<conversations, disk, nextId, now, faultsLeft, appended>>

RouteEdit ==
    \E c \in CallerIds, x \in EditTexts, p \in BOOLEAN :
        \E m \in RouteIds(c) : \E answered \in Pipeline(EndsWithUser(m)) :
            RouteStep("route_edit", c,
                      [mid |-> m, content |-> Some(x), preserve |-> p,
                       answered |-> answered],
                      router_edit_message(StoreOf(conversations, disk, nextId), c, m, x,
                                          p, answered, now, now + 1, now + 2))

RouteRetry ==
    \E c \in CallerIds, x \in {None} \cup {Some(x) : x \in RetryTexts},
       p \in BOOLEAN, answered \in BOOLEAN :
        \E m \in RouteIds(c) :
            RouteStep("route_retry", c,
                      [mid |-> m, content |-> x, preserve |-> p, answered |-> answered],
                      router_retry_message(StoreOf(conversations, disk, nextId), c, m, x,
                                           p, answered, now, now + 1, now + 2))

RouteRetryResponse ==
    \E c \in CallerIds, p \in BOOLEAN :
        \E m \in RouteIds(c) :
            RouteStep("route_retry_response", c,
                      [mid |-> m, content |-> None, preserve |-> p, answered |-> TRUE],
                      router_retry_response(StoreOf(conversations, disk, nextId), c, m,
                                            p, now, now + 1))

NextRoutes ==
    \/ CreateRoute
    \/ Continue
    \/ RouteEdit
    \/ RouteRetry
    \/ RouteRetryResponse

\* The routes that write, on storage that does not fail.
SpecRoutes == Init /\ [][NextRoutes]_vars

NextDetail == CreateRoute \/ Continue \/ Detail

\* The detail view of the conversations the chat route fills.
SpecDetail == Init /\ [][NextDetail]_vars

\* Message identifiers whose conversation part names another conversation
\* of the store than the one the call is addressed to.
ForeignIds(c) ==
    {MessageId(b, i) : b \in DOMAIN conversations \ {c}, i \in 0..MaxLen}

EditForeign ==
    \E c \in DOMAIN conversations, x \in EditTexts, p \in BOOLEAN :
        \E m \in ForeignIds(c) : edit_message(c, m, x, p)
RetryMessageForeign ==
    \E c \in DOMAIN conversations, x \in OptTexts, p \in BOOLEAN :
        \E m \in ForeignIds(c) : retry_message(c, m, x, p)
RetryResponseForeign ==
    \E c \in DOMAIN conversations, p \in BOOLEAN :
        \E m \in ForeignIds(c) : retry_response(c, m, p)

NextForeign ==
    \/ Create
    \/ AppendKnown
    \/ EditForeign
    \/ RetryMessageForeign
    \/ RetryResponseForeign

\* edit and retry calls addressed to one conversation with the message
\* identifiers of another.
SpecForeign == Init /\ [][NextForeign]_vars

(***************************************************************************)
(* Properties of editMessage, retryMessage and retryResponse.  A step is   *)
(* read through last': the call that made it and the arguments it wrote    *)
(* with; the unprimed variables are the store before the call.             *)
(***************************************************************************)
\* The interactions at indices 0..k-1 of `new` are those of `old`.
SamePrefix(old, new, k) ==
    /\ Len(old) >= k
    /\ Len(new) >= k
    /\ \A j \in 1..k : new[j] = old[j]

\* The indices of the interactions of conversation c.
InRange(c) == 0..(Len(conversations[c]) - 1)

\* The step is a call of handler op that assigned a log, made with the
\* message identifier {id}_i of an interaction of the conversation.
WroteInRange(op, preserve) ==
    /\ last'.op = op
    /\ last'.mid # <<>>
    /\ last'.preserve = preserve
    /\ last'.cid \in DOMAIN conversations
    /\ \E i \in InRange(last'.cid) : last'.mid = MessageId(last'.cid, i)

\* The index the step's message identifier names.
StepIndex == last'.mid[2].val

\* Every in-range call of the three handlers gets as far as assigning a log.
EditAccepts(preserve) ==
    \A c \in DOMAIN conversations : \A k \in InRange(c) : \A x \in EditTexts :
        edit_message_result(conversations, c, MessageId(c, k), x, preserve, now).mutates
RetryMessageAccepts(preserve) ==
    \A c \in DOMAIN conversations : \A i \in InRange(c) : \A m \in OptTexts :
        retry_message_result(conversations, c, MessageId(c, i), m, preserve, now).mutates
RetryResponseAccepts(preserve) ==
    \A c \in DOMAIN conversations : \A i \in InRange(c) :
        retry_response_result(conversations, c, MessageId(c, i), preserve, now).mutates

\* C1: editMessage(id, {id}_k, X, preserveHistory = true) on a log of length
\* n, 0 <= k < n, leaves a log of length exactly k+1 whose interaction k has
\* question X and whose interactions 0..k-1 are what they were; nothing that
\* was after index k remains.
C1_EditPreservesPrefix ==
    /\ []EditAccepts(TRUE)
    /\ [][WroteInRange("edit", TRUE) =>
            LET c == last'.cid
                k == StepIndex
            IN /\ c \in DOMAIN conversations'
               /\ Len(conversations'[c]) = k + 1
               /\ conversations'[c][k + 1].question = last'.content[1]
               /\ SamePrefix(conversations[c], conversations'[c], k)]_vars

\* An edit with preserveHistory = true has just rewritten an interaction at
\* an index k >= 1.
C1_Witness ==
    /\ last.op = "edit"
    /\ last.result = "ok"
    /\ last.preserve
    /\ last.mid # <<>>
    /\ last.mid[2].val >= 1
    /\ last.content[1] \in EditTexts
    /\ Len(conversations[last.id]) = last.mid[2].val + 1

\* The interaction retryMessage and retryResponse append: the question, an
\* empty response placeholder, isRetry = true, previousVersion = messageId.
IsRetryOf(interaction, question, message_id) ==
    /\ interaction.question = question
    /\ interaction.response = [response |-> ""]
    /\ interaction.is_retry = Some(TRUE)
    /\ interaction.previous_version = Some(message_id)

\* modifiedContent when one is provided, otherwise the question.
WhenProvided(question, m) == IF m # None THEN m[1] ELSE question
\* modifiedContent when a non-empty one is provided, otherwise the question.
WhenNonEmpty(question, m) == IF m # None /\ m[1] # "" THEN m[1] ELSE question

\* A retryMessage step with preserveHistory = true leaves a log of length
\* i+2 whose interactions 0..i are unchanged and whose last interaction is a
\* retry placeholder with the question `expected(old question, m)`.
RetryMessageAppends(expected(_, _)) ==
    WroteInRange("retry_message", TRUE) =>
        LET c == last'.cid
            i == StepIndex
        IN /\ c \in DOMAIN conversations'
           /\ Len(conversations'[c]) = i + 2
           /\ SamePrefix(conversations[c], conversations'[c], i + 1)
           /\ IsRetryOf(conversations'[c][i + 2],
                        expected(conversations[c][i + 1].question, last'.content),
                        last'.mid)

\* C2 as stated: the new last interaction has question = modifiedContent
\* whenever one is provided.
C2_RetryMessageUsesProvided ==
    /\ []RetryMessageAccepts(TRUE)
    /\ [][RetryMessageAppends(WhenProvided)]_vars

\* C2 amended: retryMessage(id, {id}_i, modifiedContent, preserveHistory =
\* true), 0 <= i < n, leaves a log of length exactly i+2: interactions 0..i
\* are unchanged, the new last interaction has question = modifiedContent
\* when a non-empty one is provided (otherwise, also for the empty string,
\* the question of interaction i), an empty response placeholder, isRetry =
\* true and previousVersion = the messageId passed in.
C2_RetryMessageAppends ==
    /\ []RetryMessageAccepts(TRUE)
    /\ [][RetryMessageAppends(WhenNonEmpty)]_vars

\* A retryMessage with preserveHistory = true and the empty string as
\* modifiedContent has just appended a placeholder after interaction i.
C2_Witness ==
    /\ last.op = "retry_message"
    /\ last.result = "ok"
    /\ last.preserve
    /\ last.content = Some("")
    /\ last.mid # <<>>
    /\ last.mid[2].val >= 0
    /\ Len(conversations[last.id]) = last.mid[2].val + 2
    /\ conversations[last.id][Len(conversations[last.id])].question # ""

C4_RetryResponseAppends ==
    /\ []RetryResponseAccepts(TRUE)
    /\ [][WroteInRange("retry_response", TRUE) =>
            LET c == last'.cid
                i == StepIndex
                old == conversations[c]
                new == conversations'[c]
                q == IF i % 2 = 1 THEN i - 1 ELSE i
            IN /\ c \in DOMAIN conversations'
               /\ Len(new) = i + 2
               /\ SamePrefix(old, new, i + 1)
               /\ IsRetryOf(new[i + 2], old[q + 1].question, last'.mid)
               /\ (Len(old) = 3 /\ i = 1 =>
                       /\ Len(new) = 3
                       /\ new[1] = old[1]
                       /\ new[2] = old[2]
                       /\ new[3].question = old[1].question)]_vars

\* A retryResponse with preserveHistory = true on index 1 has just appended
\* the retry of interaction 0, whose question differs from interaction 1's.
C4_Witness ==
    /\ last.op = "retry_response"
    /\ last.result = "ok"
    /\ last.preserve
    /\ last.mid = MessageId(last.id, 1)
    /\ LET log == conversations[last.id]
       IN /\ Len(log) = 3
          /\ IsRetryOf(log[3], log[1].question, last.mid)
          /\ log[1].question # log[2].question

\* A call that assigned a log named an interaction of the log it found.
WroteOnlyInRange ==
    last'.op \in {"edit", "retry_message", "retry_response"} /\ last'.mid # <<>> =>
        /\ last'.cid \in DOMAIN conversations
        /\ last'.mid \in {MessageId(last'.cid, i) : i \in InRange(last'.cid)}

\* C5 as stated: editMessage, retryMessage and retryResponse called with
\* {convId}_{i} resolve it to interaction i for every 0 <= i < n and fail,
\* touching nothing, for every i >= n and every i < 0.
C5_IndexInRangeOrRejected ==
    /\ [](\A p \in BOOLEAN :
            EditAccepts(p) /\ RetryMessageAccepts(p) /\ RetryResponseAccepts(p))
    /\ [][WroteOnlyInRange]_vars

(***************************************************************************)
(* The history cap.                                                        *)
(***************************************************************************)
\* The last n elements of seq.
LastN(seq, n) == SubSeq(seq, Len(seq) - n + 1, Len(seq))

\* C6: for every sequence of append calls on one conversation, after each
\* call the log holds at most max_history interactions and equals the most
\* recently appended min(k, max_history) interactions, in the order they
\* were appended, k being the number of appends so far.
C6_AppendCapsHistory ==
    \A id \in DOMAIN conversations :
        /\ id \in DOMAIN appended.of
        /\ appended.of[id].tracked
        /\ LET seq == appended.of[id].seq
           IN /\ Len(conversations[id]) <= max_history
              /\ conversations[id] = LastN(seq, Min(Len(seq), max_history))

\* More than max_history interactions were appended to a conversation, and
\* the oldest ones are no longer in its log.
C6_Witness ==
    \E id \in DOMAIN conversations :
        /\ last.op = "append"
        /\ last.id = id
        /\ appended.of[id].tracked
        /\ Len(appended.of[id].seq) > max_history
        /\ Len(conversations[id]) = max_history
        /\ conversations[id][1] # appended.of[id].seq[1]

\* C7 as stated: in every reachable state every conversation's log holds at
\* most max_history interactions.
C7_LogsWithinMaxHistory ==
    \A id \in DOMAIN conversations : Len(conversations[id]) <= max_history

(***************************************************************************)
(* append on an id the store does not hold.                                *)
(***************************************************************************)
\* C8: append called with a conversationId that is not in the store does
\* not fail: it creates exactly one new conversation under a freshly
\* generated id, whose log is exactly the one appended interaction; the id
\* the caller gave is still not a key of the store, and every conversation
\* that was there is unchanged.
C8_AppendUnknownCreates ==
    [][last'.op = "append" /\ last'.cid \notin DOMAIN conversations =>
          /\ last'.result = "ok"
          /\ ~last'.raised
          /\ last'.id \notin CallerIds
          /\ last'.id # last'.cid
          /\ DOMAIN conversations' = DOMAIN conversations \cup {last'.id}
          /\ conversations'[last'.id] =
                <<NewInteraction(now', last'.content[1], [response |-> "ans"], <<"doc">>)>>
          /\ last'.cid \notin DOMAIN conversations'
          /\ \A c \in DOMAIN conversations : conversations'[c] = conversations[c]]_vars

\* An append on an id the store does not hold has just made a second
\* conversation, next to one that holds an interaction.
C8_Witness ==
    /\ last.op = "append"
    /\ last.result = "ok"
    /\ last.cid # last.id
    /\ last.cid \notin DOMAIN conversations
    /\ last.id \in DOMAIN conversations
    /\ Len(conversations[last.id]) = 1
    /\ \E c \in DOMAIN conversations : c # last.id /\ Len(conversations[c]) >= 1

(***************************************************************************)
(* Memory and durable storage.                                             *)
(***************************************************************************)
\* The files are exactly the conversations of the store, each holding its
\* log.
Mirror ==
    /\ DOMAIN disk = DOMAIN conversations
    /\ \A c \in DOMAIN conversations : disk[c] = Stored(conversations[c])

\* The file of conversation id holds its log; there is none when the store
\* does not hold the conversation.
EntryMirrors(id) ==
    IF id \in DOMAIN conversations
    THEN id \in DOMAIN disk /\ disk[id] = Stored(conversations[id])
    ELSE id \notin DOMAIN disk

\* The most recent call met no persistence failure.
Persisted == last.result \notin {"save_error", "unlink_error"}

C10_FailedWriteKeepsDurableCopy ==
    [][last'.result = "save_error" =>
          /\ last'.raised \/ last'.op \in {"edit", "retry_message", "retry_response"}
          /\ last'.id \in DOMAIN conversations'
          /\ conversations' # conversations
          /\ disk' = disk]_vars

(***************************************************************************)
(* The handlers that read the store.                                       *)
(***************************************************************************)
\* C11 as stated: getContext(conversationId, numPrevious) returns, for
\* every numPrevious >= 0 (0 included) and every log of length n, exactly
\* the last min(numPrevious, n) interactions of the log in log order; for an
\* unknown or empty conversation it returns the empty sequence; it creates
\* no conversation.
C11_ContextIsLastMin ==
    [][last'.op = "get_context" =>
          /\ UNCHANGED <<conversations, disk>>
          /\ last'.value =
                IF last'.cid \in DOMAIN conversations
                THEN LET log == conversations[last'.cid]
                     IN LastN(log, Min(last'.arg, Len(log)))
                ELSE <<>>]_vars

\* C12: getSummary of an existing conversation is an exact projection of
\* its log: totalInteractions is the log length, questionsAsked the
\* questions of the log in log order, startTime the first interaction's
\* timestamp and lastInteraction the last one's; for an existing
\* conversation with an empty log it is a summary with totalInteractions = 0
\* and empty questionsAsked, not an error; for an unknown id it is NotFound.
C12_SummaryProjectsLog ==
    [][last'.op = "get_summary" =>
          LET summary == last'.value
          IN /\ UNCHANGED <<conversations, disk>>
             /\ IF last'.cid \notin DOMAIN conversations
                THEN /\ summary.error = Some("Conversation not found")
                     /\ last'.result = "error"
                ELSE LET log == conversations[last'.cid]
                     IN /\ summary.error = None
                        /\ last'.result = "ok"
                        /\ summary.total_interactions = Len(log)
                        /\ Len(summary.questions_asked) = Len(log)
                        /\ \A k \in 1..Len(log) :
                               summary.questions_asked[k] = log[k].question
                        /\ log # <<>> =>
                               /\ summary.start_time = log[1].timestamp
                               /\ summary.last_interaction = log[Len(log)].timestamp]_vars

\* getSummary has just answered for a conversation of two interactions with
\* different questions, the second one written by a retry.
C12_Witness ==
    /\ last.op = "get_summary"
    /\ last.result = "ok"
    /\ last.cid \in DOMAIN conversations
    /\ last.value.total_interactions = 2
    /\ last.value.questions_asked[1] # last.value.questions_asked[2]
    /\ last.value.start_time < last.value.last_interaction
    /\ conversations[last.cid][2].is_retry = Some(TRUE)

\* C13: deleteConversation(id) returns true exactly when id was in the
\* store, and then id is absent from the in-memory store and from the
\* durable store and the other conversations are untouched; on an id that
\* is not in the store (a second delete) it returns false without raising
\* and changes nothing; afterwards getSummary(id) is NotFound and
\* listConversations has no entry for id.
C13_DeleteReturnsWhetherItExisted ==
    [][last'.op = "delete" =>
          LET id == last'.cid
          IN /\ ~last'.raised
             /\ last'.result = (IF id \in DOMAIN conversations THEN "true" ELSE "false")
             /\ last'.result = "true" =>
                    /\ conversations' = Drop(conversations, id)
                    /\ disk' = Drop(disk, id)
             /\ last'.result = "false" => UNCHANGED <<conversations, disk, nextId, now>>
             /\ id \notin DOMAIN conversations'
             /\ id \notin DOMAIN disk'
             /\ get_conversation_summary(conversations', id, now' + 1).error
                    = Some("Conversation not found")
             /\ \A entry \in list_conversations(conversations') :
                    entry.conversation_id # id]_vars

\* A delete has just returned false for an id the store handed out earlier
\* and no longer holds, next to a conversation it still holds.
C13_Witness ==
    /\ last.op = "delete"
    /\ last.result = "false"
    /\ last.cid >= 1
    /\ last.cid < nextId
    /\ last.cid \notin DOMAIN conversations
    /\ last.cid \notin DOMAIN disk
    /\ DOMAIN conversations # {}

(***************************************************************************)
(* cleanupOlderThan.                                                       *)
(***************************************************************************)
\* The last interaction of conversation c of `store` is more than d whole
\* days before `current_time`, or c has none.
Expired(store, c, d, current_time) ==
    \/ store[c] = <<>>
    \/ current_time - store[c][Len(store[c])].timestamp >= (d + 1) * DayLen

\* The conversations of the store have exactly the ages of ExampleAges, in
\* days.
HasExampleAges(store, current_time) ==
    /\ Cardinality(DOMAIN store) = Cardinality(ExampleAges)
    /\ \A c \in DOMAIN store : store[c] # <<>>
    /\ {current_time - store[c][Len(store[c])].timestamp : c \in DOMAIN store}
           = {a * DayLen : a \in ExampleAges}

\* C14: a cleanupOlderThan(d) that meets no failure deletes exactly the
\* conversations whose log is empty or whose last interaction is more than
\* d whole days old (an age of exactly d days, and of d days and a part of a
\* day, is kept), leaves every other conversation unchanged and returns the
\* number of conversations it deleted; for last-interaction ages
\* {10, 29, 30, 31, 100} and d = 30 it deletes exactly the two aged 31 and
\* 100 and returns 2.
C14_CleanupThreshold ==
    [][last'.op = "cleanup" /\ last'.result = "ok" =>
          LET d == last'.arg
              current_time == now + 1
              kept == {c \in DOMAIN conversations :
                          ~Expired(conversations, c, d, current_time)}
          IN /\ DOMAIN conversations' = kept
             /\ DOMAIN disk' = DOMAIN disk \cap kept
             /\ \A c \in kept : conversations'[c] = conversations[c]
             /\ \A c \in DOMAIN disk' : disk'[c] = disk[c]
             /\ last'.value = Cardinality(DOMAIN conversations \ kept)
             /\ HasExampleAges(conversations, current_time) /\ d = 30 =>
                    /\ last'.value = 2
                    /\ {current_time - conversations'[c][1].timestamp :
                            c \in DOMAIN conversations'}
                           = {10 * DayLen, 29 * DayLen, 30 * DayLen}]_vars

\* A cleanup with the default age has just returned 2 and left the three
\* conversations aged 10, 29 and 30 days.
C14_Witness ==
    /\ last.op = "cleanup"
    /\ last.result = "ok"
    /\ last.arg = 30
    /\ last.value = 2
    /\ faultsLeft = MaxFailures
    /\ Cardinality(DOMAIN conversations) = 3
    /\ \A c \in DOMAIN conversations : conversations[c] # <<>>
    /\ {now + 1 - conversations[c][1].timestamp : c \in DOMAIN conversations}
           = {10 * DayLen, 29 * DayLen, 30 * DayLen}

\* C15 as stated: when cleanupOlderThan fails partway through (on a
\* timestamp that cannot be parsed, or on a failing removal of a file), the
\* conversations already deleted stay deleted in memory and in durable
\* storage, and the count it returns is the number of conversations
\* actually deleted before the failure.
C15_FailedCleanupCountsDeleted ==
    [][last'.op = "cleanup" /\ last'.result = "error" =>
          LET deleted == DOMAIN conversations \ DOMAIN conversations'
          IN /\ \A c \in deleted : c \notin DOMAIN disk'
             /\ \A c \in DOMAIN conversations' : conversations'[c] = conversations[c]
             /\ last'.value = Cardinality(deleted)]_vars

(***************************************************************************)
(* Errors.                                                                 *)
(***************************************************************************)
\* C16 as stated: every operation of the store reports every failure, a
\* persistence failure included, as an explicit error result and never lets
\* an exception escape to its caller.
C16_NoExceptionEscapes == ~last.raised

\* C17 as stated: the message identifier is split at its last underscore:
\* for a conversation id that itself contains underscores, {convId}_{i}
\* resolves to conversation convId and index i (the trailing segment), not
\* to what follows the first underscore.
C17_SplitAtLastUnderscore ==
    /\ [](\A c \in DOMAIN conversations : \A i \in InRange(c) : \A p \in BOOLEAN :
             LET m == NamedMessageId(c, i)
             IN /\ parse_index(m).ok
                /\ parse_index(m).idx = i
                /\ edit_message_result(conversations, c, m, "x", p, now).mutates)
    /\ [][last'.op = "edit" /\ last'.mid # <<>> =>
             LET i == last'.mid[Len(last'.mid)].val
             IN /\ Len(conversations'[last'.cid]) = i + 1
                /\ conversations'[last'.cid][i + 1].question = last'.content[1]
                /\ SamePrefix(conversations[last'.cid], conversations'[last'.cid], i)]_vars

\* The trailing segment of the identifier is missing or is not a
\* non-negative integer.
Malformed(message_id) ==
    \/ Len(message_id) < 2
    \/ message_id[Len(message_id)].kind # "int"
    \/ message_id[Len(message_id)].val < 0

\* The error kind of a handler's result, read off the message it carries:
\* the two "... not found" messages are NotFound, the text of the exception
\* of the parse and "Invalid message ID ..." are InvalidIdentifier.
ErrorKind(r) ==
    IF r.mutates THEN "none"
    ELSE IF r.result \in {"conversation_not_found", "message_not_found"} THEN "NotFound"
    ELSE "InvalidIdentifier"

\* The identifiers of every form a caller can pass with conversation id c.
AnyMessageIds(c) ==
    {MessageId(c, i) : i \in Indices} \cup {<<UuidSeg(c)>>, <<UuidSeg(c), WordSeg>>}

\* The kind the claim asks for.
ExpectedKind(store, c, message_id) ==
    IF Malformed(message_id) THEN "InvalidIdentifier"
    ELSE IF c \notin DOMAIN store THEN "NotFound"
    ELSE IF message_id[2].val >= Len(store[c]) THEN "NotFound"
    ELSE "none"

\* C18 as stated: editMessage, retryMessage and retryResponse fail with
\* InvalidIdentifier for an identifier whose trailing segment is missing or
\* is not a non-negative integer, and with NotFound for a well-formed
\* identifier that names an unknown conversation or an index out of range;
\* the two cases never give the same error kind.
C18_ErrorKindsDistinguished ==
    \A c \in CallerIds : \A m \in AnyMessageIds(c) : \A p \in BOOLEAN :
        LET expected == ExpectedKind(conversations, c, m)
        IN /\ ErrorKind(edit_message_result(conversations, c, m, "x", p, now)) = expected
           /\ ErrorKind(retry_message_result(conversations, c, m, None, p, now)) = expected
           /\ ErrorKind(retry_response_result(conversations, c, m, p, now)) = expected

(***************************************************************************)
(* Identity and restart.                                                   *)
(***************************************************************************)
\* C19: a conversation id is never reused: once an id the store handed out
\* is no longer a key of the store (deleteConversation returned true, or
\* cleanup removed it), no later operation, an append addressed to that
\* same id included, makes it a key again.
C19_IdNeverReused ==
    [][\A id \in 1..(nextId - 1) :
           id \notin DOMAIN conversations => id \notin DOMAIN conversations']_vars

\* An append addressed to an id that was removed has just made a
\* conversation under another id.
C19_Witness ==
    /\ last.op = "append"
    /\ last.result = "ok"
    /\ last.cid >= 1
    /\ last.cid < last.id
    /\ last.cid \notin DOMAIN conversations
    /\ last.id \in DOMAIN conversations

\* C20: restart round trip: after any sequence of successfully persisted
\* operations, a new store constructed over the same durable storage holds
\* exactly the conversation ids and the logs the store held before the
\* restart.
C20_RestartRoundTrip ==
    [][last'.op = "restart" =>
          /\ DOMAIN conversations' = DOMAIN conversations
          /\ \A c \in DOMAIN conversations : conversations'[c] = conversations[c]
          /\ disk' = disk]_vars

\* A store has just been constructed over the files of a conversation with
\* an empty log and one with an edited first interaction and a retry.
C20_Witness ==
    /\ last.op = "restart"
    /\ \E c \in DOMAIN conversations : conversations[c] = <<>>
    /\ \E c \in DOMAIN conversations :
           /\ Len(conversations[c]) >= 2
           /\ conversations[c][1].edited_at # None
           /\ conversations[c][Len(conversations[c])].is_retry = Some(TRUE)

(***************************************************************************)
(* Independence of conversations.                                          *)
(***************************************************************************)
\* The store that holds conversation c alone.
Only(store, c) == [k \in {c} |-> store[k]]

\* The log the call recorded in `call` leaves for the conversation it is
\* addressed to, computed on that conversation alone at time t.
AloneLog(store, call, t) ==
    CASE call.op = "append" ->
             add_interaction_log(store[call.id],
                 NewInteraction(t, call.content[1], [response |-> "ans"], <<"doc">>))
      [] call.op = "edit" ->
             edit_message_result(Only(store, call.id), call.id, call.mid,
                                 call.content[1], call.preserve, t).log
      [] call.op = "retry_message" ->
             retry_message_result(Only(store, call.id), call.id, call.mid,
                                  call.content, call.preserve, t).log
      [] OTHER ->
             retry_response_result(Only(store, call.id), call.id, call.mid,
                                   call.preserve, t).log

\* C21: operations on different conversation ids are independent: a call
\* of append, editMessage, retryMessage, retryResponse or deleteConversation
\* addressed to conversation A leaves the log and the durable copy of every
\* other conversation as they were, and what it leaves for A is what the
\* same call makes of A's log alone, so that in every interleaving of calls
\* addressed to A and to B the final log and durable copy of each are those
\* its own calls produce in their own order.
C21_ConversationsIndependent ==
    [][last'.op \in {"append", "edit", "retry_message", "retry_response", "delete"} =>
          /\ \A c \in (DOMAIN conversations \cup DOMAIN conversations') \ {last'.id} :
                 /\ c \in DOMAIN conversations /\ c \in DOMAIN conversations'
                 /\ conversations'[c] = conversations[c]
          /\ \A c \in (DOMAIN disk \cup DOMAIN disk') \ {last'.id} :
                 /\ c \in DOMAIN disk /\ c \in DOMAIN disk'
                 /\ disk'[c] = disk[c]
          /\ (last'.op # "delete" /\ last'.result = "ok"
                 /\ last'.id \in DOMAIN conversations) =>
                 /\ conversations'[last'.id] = AloneLog(conversations, last', now')
                 /\ disk'[last'.id] = Stored(conversations'[last'.id])
          /\ (last'.op = "delete" /\ last'.result = "true") =>
                 /\ last'.id \notin DOMAIN conversations'
                 /\ last'.id \notin DOMAIN disk']_vars

\* An edit has just cut the log of one conversation while another
\* conversation, appended to earlier, holds its interaction.
C21_Witness ==
    /\ last.op = "edit"
    /\ last.result = "ok"
    /\ last.id \in DOMAIN conversations
    /\ Len(conversations[last.id]) >= 1
    /\ \E b \in DOMAIN conversations \ {last.id} :
           /\ Len(conversations[b]) >= 1
           /\ b \in DOMAIN disk
           /\ disk[b] = Stored(conversations[b])

(***************************************************************************)
(* Properties of the routes.                                               *)
(***************************************************************************)
\* The key the listing is sorted by, read from the store.
ListingKey(store, c, sort_by) ==
    IF sort_by = "last_interaction"
    THEN IF store[c] = <<>> THEN EmptyStr ELSE store[c][Len(store[c])].timestamp
    ELSE Len(store[c])

\* x is not after y in the chosen direction.
NotAfter(x, y, order) == IF order = "desc" THEN x >= y ELSE x <= y

\* C22: the paginated listing returns, for every offset >= 0 and limit >= 0,
\* exactly the elements at positions [offset, offset+limit) of the full
\* conversation listing sorted by the chosen key (last-interaction timestamp
\* or interaction count) in the chosen direction, conversations without a
\* last interaction having the lowest key: the page holds
\* min(limit, max(n - offset, 0)) distinct conversations with their
\* summaries, in key order, min(offset, n) of the other conversations sort
\* before all of it and the rest after; so it never holds more than limit
\* entries, and conversations last touched on days 3, 1 and 2 come back
\* descending as 3, 2, 1.
C22_PageOfSortedListing ==
    [][(/\ last'.op = "router_list"
        /\ last'.arg.sort_by \in {"last_interaction", "total_interactions"}) =>
          LET a == last'.arg
              page == last'.value.conversations
              n == Cardinality(DOMAIN conversations)
              ids == {page[k].conversation_id : k \in 1..Len(page)}
              others == DOMAIN conversations \ ids
              Key(c) == ListingKey(conversations, c, a.sort_by)
          IN /\ Len(page) = Min(a.limit, Max(n - a.offset, 0))
             /\ Len(page) <= a.limit
             /\ Cardinality(ids) = Len(page)
             /\ ids \subseteq DOMAIN conversations
             /\ \A k \in 1..Len(page) :
                    page[k].summary =
                        get_conversation_summary(conversations, page[k].conversation_id, now + 1)
             /\ \A j, k \in 1..Len(page) :
                    j < k => NotAfter(Key(page[j].conversation_id),
                                      Key(page[k].conversation_id), a.order)
             /\ \E before \in SUBSET others :
                    /\ Cardinality(before) = Min(a.offset, n)
                    /\ \A b \in before, c \in ids \cup (others \ before) :
                           NotAfter(Key(b), Key(c), a.order)
                    /\ \A c \in ids, d \in others \ before :
                           NotAfter(Key(c), Key(d), a.order)
             /\ (/\ a.sort_by = "last_interaction" /\ a.order = "desc"
                 /\ {1, 2, 3} \subseteq ids
                 /\ \A c \in 1..3 : conversations[c] # <<>>
                 /\ ListingKey(conversations, 1, "last_interaction") = 3
                 /\ ListingKey(conversations, 2, "last_interaction") = 1
                 /\ ListingKey(conversations, 3, "last_interaction") = 2) =>
                    LET Pos(c) == CHOOSE k \in 1..Len(page) : page[k].conversation_id = c
                    IN Pos(1) < Pos(3) /\ Pos(3) < Pos(2)]_vars

\* Of three conversations last touched at 3, 1 and 2, listed by last
\* interaction, descending, the page of one entry after the first has just
\* been returned: it holds the conversation touched at 2.
C22_Witness ==
    /\ last.op = "router_list"
    /\ last.arg = [limit |-> 1, offset |-> 1,
                   sort_by |-> "last_interaction", order |-> "desc"]
    /\ [c \in 1..3 |-> ListingKey(conversations, c, "last_interaction")] = <<3, 1, 2>>
    /\ Len(last.value.conversations) = 1
    /\ last.value.conversations[1].conversation_id = 3
    /\ last.value.metadata.total = 3

\* The identifiers the detail view shows for conversation c, and those of
\* its assistant messages.
ShownIds(store, c, t) ==
    LET shown == get_conversation_detail(store, c, DefaultMessageLimit, t).messages
    IN {shown[k].id : k \in 1..Len(shown)}
ShownAssistantIds(store, c, t) ==
    LET shown == get_conversation_detail(store, c, DefaultMessageLimit, t).messages
    IN {shown[k].id : k \in {j \in 1..Len(shown) : shown[j].role = "assistant"}}

\* C23: for every conversation with at least one interaction and every
\* message identifier the detail view returns for it, an edit request and
\* a retry request using that identifier succeed, and a retry-response
\* request using the identifier of any assistant message succeeds (the
\* pipeline answering): none of them fails with NotFound.
C23_ShownIdsAccepted ==
    [][(/\ last'.op \in {"route_edit", "route_retry", "route_retry_response"}
        /\ last'.arg.answered
        /\ last'.cid \in DOMAIN conversations
        /\ Len(conversations[last'.cid]) >= 1
        /\ last'.arg.mid \in
               (IF last'.op = "route_retry_response"
                THEN ShownAssistantIds(conversations, last'.cid, now + 1)
                ELSE ShownIds(conversations, last'.cid, now + 1))) =>
          last'.status = 200]_vars

\* C24: whenever editMessage, retryMessage or retryResponse returns an
\* error for a reason other than a persistence failure (unknown
\* conversation, out-of-range or negative index, unparsable identifier),
\* the in-memory logs and the durable copies of all conversations are
\* exactly what they were before the call.
C24_ErrorLeavesStore ==
    [][(/\ last'.op \in {"edit", "retry_message", "retry_response"}
        /\ last'.result \notin {"ok", "save_error"}) =>
          /\ last'.result \in {"conversation_not_found", "message_not_found",
                               "index_error", "value_error", "invalid_response_retry"}
          /\ conversations' = conversations
          /\ disk' = disk]_vars

\* An edit with index -1 and preserve_history has just raised IndexError
\* inside the handler, on a conversation that holds interactions.
C24_Witness ==
    /\ last.op = "edit"
    /\ last.result = "index_error"
    /\ last.id \in DOMAIN conversations
    /\ Len(conversations[last.id]) >= 1
    /\ disk[last.id] = Stored(conversations[last.id])

\* The two identifiers the detail view assigns to the interaction at log
\* position k (0-based) of a log it shows whole.
DisplayIdsOf(c, k) == {MessageId(c, 2 * k), MessageId(c, 2 * k + 1)}

\* C25: display identifiers and store indices agree: for every interaction
\* at log position k, the two display identifiers the detail view assigns to
\* its question and its response, passed to editMessage, retryMessage or
\* retryResponse, make the store operate on that same interaction k: the
\* call is accepted, an edit leaves interaction k last with the new
\* question, a retry or a retry-response appends after interaction k a
\* placeholder that asks the question of interaction k.
C25_DisplayIdsNameTheInteraction ==
    \A c \in DOMAIN conversations :
        \A k \in 0..(Len(conversations[c]) - 1) :
            \A m \in DisplayIdsOf(c, k) :
                LET log == conversations[c]
                    shown == get_conversation_detail(conversations, c,
                                                     DefaultMessageLimit, now + 1).messages
                    e == edit_message_result(conversations, c, m, "x", TRUE, now + 1)
                    r == retry_message_result(conversations, c, m, None, TRUE, now + 1)
                    s == retry_response_result(conversations, c, m, TRUE, now + 1)
                IN /\ shown[2 * k + 1].id = MessageId(c, 2 * k)
                   /\ shown[2 * k + 2].id = MessageId(c, 2 * k + 1)
                   /\ e.mutates /\ r.mutates /\ s.mutates
                   /\ Len(e.log) = k + 1
                   /\ e.log[k + 1].question = "x"
                   /\ e.log[k + 1].timestamp = log[k + 1].timestamp
                   /\ Len(r.log) = k + 2
                   /\ r.log[k + 1] = log[k + 1]
                   /\ r.log[k + 2].question = log[k + 1].question
                   /\ Len(s.log) = k + 2
                   /\ s.log[k + 1] = log[k + 1]
                   /\ s.log[k + 2].question = log[k + 1].question

\* The index a well-formed identifier of conversation c carries, -1 for any
\* other identifier.
IndexIn(c, message_id) ==
    IF Len(message_id) = 2 /\ message_id[1] = UuidSeg(c) /\ message_id[2].kind = "int"
    THEN message_id[2].val ELSE -1

\* C26: a retry placeholder is eventually filled: when a retry request with
\* preserveHistory = true on interaction i has run to completion (the
\* store's retryMessage, then the question pipeline called again, which
\* answered), the conversation holds exactly one interaction more than the
\* retained prefix 0..i, that interaction carries the regenerated response,
\* and no interaction after the prefix has the empty response of the
\* placeholder.
C26_PlaceholderFilled ==
    [][(/\ last'.op = "route_retry"
        /\ last'.status = 200
        /\ last'.arg.preserve
        /\ last'.cid \in DOMAIN conversations
        /\ IndexIn(last'.cid, last'.arg.mid) \in 0..(Len(conversations[last'.cid]) - 1)) =>
          LET i == IndexIn(last'.cid, last'.arg.mid)
              old == conversations[last'.cid]
              new == conversations'[last'.cid]
          IN /\ \A k \in 1..Len(new) :
                    new[k].timestamp > now => new[k].response.response # ""
             /\ Len(new) = i + 2
             /\ SamePrefix(old, new, i + 1)
             /\ new[Len(new)].response.response = "ans"]_vars

\* C27: editMessage, retryMessage and retryResponse called with
\* conversationId = A and a message identifier whose conversation part names
\* a different conversation B modify neither A's log nor B's log.
C27_ForeignIdModifiesNothing ==
    [][(/\ last'.op \in {"edit", "retry_message", "retry_response"}
        /\ \/ last'.mid = <<>>
           \/ last'.mid[1] # UuidSeg(last'.cid)) =>
          /\ conversations' = conversations
          /\ disk' = disk]_vars

\* C28: under a non-decreasing clock, in every state reachable by create,
\* append, editMessage, retryMessage and retryResponse the timestamps of
\* each conversation's log are non-decreasing in index order, so a
\* summary's startTime is never later than its lastInteraction.
C28_TimestampsNonDecreasing ==
    \A c \in DOMAIN conversations :
        /\ \A k \in 1..(Len(conversations[c]) - 1) :
               conversations[c][k].timestamp <= conversations[c][k + 1].timestamp
        /\ LET summary == get_conversation_summary(conversations, c, now + 1)
           IN /\ summary.error = None
              /\ summary.start_time <= summary.last_interaction

\* A retry in place of the second interaction has just stamped it with the
\* time of the retry, later than the first interaction's, and cut the log
\* after it.
C28_Witness ==
    /\ last.op = "retry_message"
    /\ last.result = "ok"
    /\ ~last.preserve
    /\ Len(conversations[last.id]) = 2
    /\ conversations[last.id][2].timestamp = now
    /\ conversations[last.id][1].timestamp < now - 1
    /\ get_conversation_summary(conversations, last.id, now + 1).start_time
           < get_conversation_summary(conversations, last.id, now + 1).last_interaction

\* C29: continue_conversation called with a conversation id that is not in
\* the store fails with NotFound (404) and leaves the store unchanged: it
\* creates no conversation and appends no interaction (checked for the
\* calls whose pipeline would answer).
C29_ContinueUnknownIsNotFound ==
    [][(/\ last'.op = "continue"
        /\ last'.arg.answered
        /\ last'.cid \notin DOMAIN conversations) =>
          /\ last'.status = 404
          /\ conversations' = conversations
          /\ disk' = disk
          /\ nextId' = nextId]_vars

\* C30: the detail view called with message limit L >= 1 returns at most L
\* display messages for any conversation, each interaction it shows
\* contributing exactly one user message followed by one assistant message.
C30_DetailWithinLimit ==
    (last.op = "detail" /\ last.status = 200 /\ last.arg.message_limit >= 1) =>
        LET messages == last.value.messages
        IN /\ Len(messages) % 2 = 0
           /\ \A k \in 1..Len(messages) :
                  messages[k].role = (IF k % 2 = 1 THEN "user" ELSE "assistant")
           /\ \A k \in 1..(Len(messages) \div 2) :
                  messages[2 * k - 1].timestamp = messages[2 * k].timestamp
           /\ last.value.total_messages = Len(messages)
           /\ Len(messages) <= last.arg.message_limit

====
